---- MODULE Spec2Model ----
(***************************************************************************)
(* A model of the J1939 labeling pipeline (labeling/parser.py,            *)
(* labeling/rule_engine.py, labeling/cli.py).                             *)
(*                                                                         *)
(* Representation choices:                                                 *)
(*  - a Python str is a sequence of one-character strings; "" is << >>;   *)
(*  - a dict is a TLA+ record (a function on strings); a missing key is a *)
(*    string outside its DOMAIN;                                          *)
(*  - timestamps, intervals, scales and thresholds are integers (the      *)
(*    capture's seconds and the rule's milliseconds in one common tick);  *)
(*    floating-point rounding is not modelled;                            *)
(*  - a DataFrame is the sequence of its rows, index = position;          *)
(*  - integers stay below 2^31 (identifiers of up to 31 bits).            *)
(***************************************************************************)
EXTENDS Integers, Sequences, FiniteSets, TLC

VARIABLES
    input,      \* parse_candump: the lines of the file, all of them
    lines,      \* parse_candump: the lines of the file not yet read
    records,    \* parse_candump: the list `records`
    reported,   \* parse_candump: the lines reported by the except branch
    df,         \* the DataFrame handed to apply_rules, mutated in place
    rules,      \* apply_rules: the rule list loaded from the YAML document
    ri,         \* apply_rules: number of rules of the list already evaluated
    stage,      \* "parse" | "rules" | "crashed" (an exception left apply_rules)
    calls,      \* per row, the _annotate_row calls made on it, in order
    before      \* the frame as it was when the latest rule evaluation began

vars == <<input, lines, records, reported, df, rules, ri, stage, calls, before>>

(***************************************************************************)
(* Characters and strings                                                  *)
(***************************************************************************)
HexChars == <<"0","1","2","3","4","5","6","7","8","9","A","B","C","D","E","F">>

LowerHex == {"a","b","c","d","e","f"}

DecChars == {"0","1","2","3","4","5","6","7","8","9"}

\* str.upper() on one character
UpperChar(c) ==
    CASE c = "a" -> "A" [] c = "b" -> "B" [] c = "c" -> "C"
      [] c = "d" -> "D" [] c = "e" -> "E" [] c = "f" -> "F"
      [] OTHER -> c

Upper(s) == [i \in 1..Len(s) |-> UpperChar(s[i])]

IsHexChar(c) == \E i \in 1..16 : HexChars[i] = UpperChar(c)

HexVal(c) == (CHOOSE i \in 1..16 : HexChars[i] = UpperChar(c)) - 1

RECURSIVE DigitsValue(_, _)
\* the value of a digit string in the given base, most significant first
DigitsValue(s, base) ==
    IF Len(s) = 0 THEN 0
    ELSE base * DigitsValue(SubSeq(s, 1, Len(s) - 1), base) + HexVal(s[Len(s)])

\* int(tok, 16): ValueError on an empty token or a non-hex character
ParseHex(tok) ==
    IF Len(tok) > 0 /\ \A i \in 1..Len(tok) : IsHexChar(tok[i])
    THEN [ok |-> TRUE, val |-> DigitsValue(tok, 16)]
    ELSE [ok |-> FALSE, val |-> 0]

\* int(tok) and float(tok) on an unsigned digit string: ValueError otherwise
ParseDec(tok) ==
    IF Len(tok) > 0 /\ \A i \in 1..Len(tok) : tok[i] \in DecChars
    THEN [ok |-> TRUE, val |-> DigitsValue(tok, 10)]
    ELSE [ok |-> FALSE, val |-> 0]

RECURSIVE LStrip(_, _)
LStrip(s, cs) ==
    IF Len(s) > 0 /\ s[1] \in cs THEN LStrip(Tail(s), cs) ELSE s

RECURSIVE RStrip(_, _)
RStrip(s, cs) ==
    IF Len(s) > 0 /\ s[Len(s)] \in cs THEN RStrip(SubSeq(s, 1, Len(s) - 1), cs) ELSE s

\* str.strip(chars)
Strip(s, cs) == RStrip(LStrip(s, cs), cs)

\* str.zfill(2)
ZFill2(tok) ==
    IF Len(tok) = 0 THEN <<"0", "0">>
    ELSE IF Len(tok) = 1 THEN <<"0">> \o tok
    ELSE tok

RECURSIVE Join(_)
\* ''.join(toks)
Join(toks) == IF Len(toks) = 0 THEN << >> ELSE Head(toks) \o Join(Tail(toks))

\* a Python slice s[a:b] for 0 <= a, 0 <= b
Slice(s, a, b) ==
    LET hi == IF b < Len(s) THEN b ELSE Len(s)
    IN  IF a >= hi THEN << >> ELSE SubSeq(s, a + 1, hi)

(***************************************************************************)
(* Bit operations on naturals                                              *)
(***************************************************************************)
RECURSIVE BitAnd(_, _)
BitAnd(a, b) ==
    IF a = 0 \/ b = 0 THEN 0
    ELSE (a % 2) * (b % 2) + 2 * BitAnd(a \div 2, b \div 2)

Shr(a, n) == a \div (2 ^ n)

(***************************************************************************)
(* parser.py                                                               *)
(***************************************************************************)
\* da = None
None == -1

\* the PDU2 test with the boundary value left out
IsBroadcastAbove(pf) == pf > 240

\* pf >= 240: PDU2 (broadcast)
IsBroadcast(pf) == pf >= 240

\* extract_j1939_fields(can_id)
ExtractJ1939Fields(can_id) ==
    LET priority == BitAnd(Shr(can_id, 26), 7)
        pf       == BitAnd(Shr(can_id, 16), 255)
        ps       == BitAnd(Shr(can_id, 8), 255)
        sa       == BitAnd(can_id, 255)
        pgn_raw  == BitAnd(Shr(can_id, 8), 65535)
    IN  IF IsBroadcast(pf)
        THEN [priority |-> priority, pf |-> pf, ps |-> ps, sa |-> sa,
              da |-> None, pgn |-> pgn_raw, pdu_type |-> "PDU2"]
        ELSE [priority |-> priority, pf |-> pf, ps |-> ps, sa |-> sa,
              da |-> ps, pgn |-> BitAnd(pgn_raw, 65280), pdu_type |-> "PDU1"]

\* the pgn_labels table handed in by cli.main (PGN -> label)
PgnLabels == [p \in {61444} |-> "EEC1"]

\* pgn_labels.get(pgn)
PgnLabel(pgn) == IF pgn \in DOMAIN PgnLabels THEN PgnLabels[pgn] ELSE "None"

\* the dict appended to `records`
Row(timestamp, iface, can_id, dlc, data) ==
    LET dec == ExtractJ1939Fields(can_id)
    IN  [timestamp |-> timestamp, iface |-> iface, can_id |-> can_id,
         dlc |-> dlc, data |-> data,
         priority |-> dec.priority, pdu_format |-> dec.pf,
         pdu_specific |-> dec.ps, pdu_type |-> dec.pdu_type,
         pgn |-> dec.pgn, pgn_label |-> PgnLabel(dec.pgn),
         destination |-> dec.da, source |-> dec.sa,
         label |-> "normal"]

\* the data tokens of a line: parts[4:4 + dlc]
DataTokens(parts, dlc) == Slice(parts, 4, 4 + dlc)

\* ''.join(b.zfill(2) for b in data_tokens).upper()
JoinData(data_tokens) ==
    Upper(Join([i \in 1..Len(data_tokens) |-> ZFill2(data_tokens[i])]))

\* the try block of parse_candump on one non-blank line, split into parts:
\* ok = FALSE when an exception is raised (IndexError, ValueError)
DecodeLine(parts) ==
    IF Len(parts) < 4 THEN [ok |-> FALSE]
    ELSE LET ts  == ParseDec(Strip(parts[1], {"(", ")"}))
             id  == ParseHex(parts[3])
             dlc == ParseDec(Strip(parts[4], {"[", "]"}))
         IN  IF ~ts.ok \/ ~id.ok \/ ~dlc.ok THEN [ok |-> FALSE]
             ELSE [ok |-> TRUE,
                   rec |-> Row(ts.val, parts[2], id.val, dlc.val,
                               JoinData(DataTokens(parts, dlc.val)))]

(***************************************************************************)
(* rule_engine.py: helpers                                                 *)
(*                                                                         *)
(* Strings the engine only copies or compares (label, type, severity,     *)
(* semantics, layer, description, comparator) are atomic TLA+ strings;    *)
(* rule_name and data, which it concatenates or decodes, are character    *)
(* sequences.  A cell holding "" or a number (context_value), and an      *)
(* optional number (the context_value argument, None or a float), is      *)
(* << >> or <<v>>.                                                        *)
(***************************************************************************)
EmptyDict == [k \in {} |-> 0]

\* d.get(k, dflt)
Get(d, k, dflt) == IF k \in DOMAIN d THEN d[k] ELSE dflt

SEVERITY_ORDER == [low |-> 0, medium |-> 1, high |-> 2]

\* SEVERITY_ORDER.get(sev, -1)
SeverityRank(sev) == IF sev \in DOMAIN SEVERITY_ORDER THEN SEVERITY_ORDER[sev] ELSE -1

\* str.lower() on the severities of the rule catalogue
Lower(s) ==
    CASE s = "HIGH" -> "high" [] s = "Medium" -> "medium" [] OTHER -> s

\* str.strip() on the semantics tags of the rule catalogue
StripWs(s) == CASE s = " usage " -> "usage" [] OTHER -> s

\* the columns apply_rules adds to the frame before the loop
Provenance ==
    [rule_name |-> << >>, rule_type |-> "", semantics |-> "",
     rule_severity |-> "", rule_layer |-> "", rule_description |-> "",
     context_pgn |-> "", context_value |-> << >>]

\* a row of the frame: the parser's dict plus the provenance columns
WithProvenance(rec) ==
    [k \in DOMAIN rec \cup DOMAIN Provenance |->
        IF k \in DOMAIN rec THEN rec[k] ELSE Provenance[k]]

\* pd.DataFrame(records) with the provenance columns added
Frame(recs) == [i \in 1..Len(recs) |-> WithProvenance(recs[i])]

\* the new rule_name cell
AccumulateName(prev_names, rname) ==
    IF Len(prev_names) > 0 THEN prev_names \o <<"|">> \o rname ELSE rname

\* the comparison made strict: on equal rank the earlier rule keeps the label
PromotesStrict(new_rank, curr_rank) == new_rank > curr_rank

\* the comparison dropped: the latest rule always takes the label
PromotesAlways(new_rank, curr_rank) == TRUE

\* whether the firing rule takes over the label
Promotes(new_rank, curr_rank) == new_rank >= curr_rank

\* the annotator with the context cells written only by a rule that takes
\* the label
AnnotateRowRanked(row, rule, context_value) ==
    LET label     == Get(rule, "label", "anomalous")
        semantics == StripWs(Get(rule, "semantics", ""))
        meta      == Get(rule, "metadata", EmptyDict)
        severity  == Lower(Get(meta, "severity", ""))
        layer     == Get(meta, "layer", "")
        desc      == Get(meta, "description", "")
        rtype     == Get(rule, "type", "")
        rname     == Get(rule, "name", << >>)
        named     == [row EXCEPT !.rule_name = AccumulateName(row.rule_name, rname)]
        curr_rank == SeverityRank(row.rule_severity)
        new_rank  == SeverityRank(severity)
        ctx       == Get(rule, "context", EmptyDict)
    IN  IF Promotes(new_rank, curr_rank)
        THEN LET promoted ==
                     [named EXCEPT !.label = label, !.rule_type = rtype,
                                   !.semantics = semantics, !.rule_severity = severity,
                                   !.rule_layer = layer, !.rule_description = desc]
             IN  IF context_value # << >> /\ DOMAIN ctx # {}
                 THEN [promoted EXCEPT !.context_value = context_value,
                                       !.context_pgn = ToString(Get(ctx, "pgn", ""))]
                 ELSE promoted
        ELSE named

\* _annotate_row(df, idx, rule, context_value=...) on the row df[idx]
AnnotateRow(row, rule, context_value) ==
    LET label     == Get(rule, "label", "anomalous")
        semantics == StripWs(Get(rule, "semantics", ""))
        meta      == Get(rule, "metadata", EmptyDict)
        severity  == Lower(Get(meta, "severity", ""))
        layer     == Get(meta, "layer", "")
        desc      == Get(meta, "description", "")
        rtype     == Get(rule, "type", "")
        rname     == Get(rule, "name", << >>)
        named     == [row EXCEPT !.rule_name = AccumulateName(row.rule_name, rname)]
        curr_rank == SeverityRank(row.rule_severity)
        new_rank  == SeverityRank(severity)
        promoted  ==
            IF Promotes(new_rank, curr_rank)
            THEN [named EXCEPT !.label = label, !.rule_type = rtype,
                               !.semantics = semantics, !.rule_severity = severity,
                               !.rule_layer = layer, !.rule_description = desc]
            ELSE named
        ctx       == Get(rule, "context", EmptyDict)
    IN  IF context_value # << >>
        THEN IF DOMAIN ctx # {}
             THEN [promoted EXCEPT !.context_value = context_value,
                                   !.context_pgn = ToString(Get(ctx, "pgn", ""))]
             ELSE [promoted EXCEPT !.context_value = context_value]
        ELSE promoted

\* one _annotate_row call on row idx of the frame, and its entry in the call log
AnnotateAt(st, idx, rule, context_value) ==
    [df    |-> [st.df EXCEPT ![idx] = AnnotateRow(st.df[idx], rule, context_value)],
     calls |-> [st.calls EXCEPT ![idx] =
                   Append(st.calls[idx], [rule |-> rule, context_value |-> context_value])]]

RECURSIVE AnnotateAll(_, _, _, _)
\* for idx in idxs: _annotate_row(df, idx, rule, context_value=cv[idx])
AnnotateAll(st, idxs, rule, cv) ==
    IF Len(idxs) = 0 THEN st
    ELSE AnnotateAll(AnnotateAt(st, Head(idxs), rule, cv[Head(idxs)]),
                     Tail(idxs), rule, cv)

\* _moi_filter raises KeyError on a frame without the decoded columns
\* (pd.DataFrame([]) of an empty record list has no columns)
MoiFilterRaises(d, moi) ==
    Len(d) = 0 /\ DOMAIN moi \cap {"pgn", "sa", "priority_min", "priority_max"} # {}

\* the filter without its source-address test
MoiFilterNoSa(d, moi) ==
    LET all == [i \in 1..Len(d) |-> i]
        f1  == IF "pgn" \in DOMAIN moi
               THEN SelectSeq(all, LAMBDA i : d[i].pgn = moi.pgn) ELSE all
        f3  == IF "da" \in DOMAIN moi /\ Len(d) > 0
               THEN SelectSeq(f1, LAMBDA i : d[i].destination # None
                                             /\ d[i].destination = moi.da)
               ELSE f1
        f4  == IF "priority_min" \in DOMAIN moi
               THEN SelectSeq(f3, LAMBDA i : d[i].priority >= moi.priority_min) ELSE f3
        f5  == IF "priority_max" \in DOMAIN moi
               THEN SelectSeq(f4, LAMBDA i : d[i].priority <= moi.priority_max) ELSE f4
    IN  IF DOMAIN moi = {} THEN all ELSE f5

\* the filter passing over the records a rule has already labelled
MoiFilterUnlabelled(d, moi) ==
    LET all == SelectSeq([i \in 1..Len(d) |-> i], LAMBDA i : d[i].label = "normal")
        f1  == IF "pgn" \in DOMAIN moi
               THEN SelectSeq(all, LAMBDA i : d[i].pgn = moi.pgn) ELSE all
        f2  == IF "sa" \in DOMAIN moi
               THEN SelectSeq(f1, LAMBDA i : d[i].source = moi.sa) ELSE f1
        f3  == IF "da" \in DOMAIN moi /\ Len(d) > 0
               THEN SelectSeq(f2, LAMBDA i : d[i].destination # None
                                             /\ d[i].destination = moi.da)
               ELSE f2
        f4  == IF "priority_min" \in DOMAIN moi
               THEN SelectSeq(f3, LAMBDA i : d[i].priority >= moi.priority_min) ELSE f3
        f5  == IF "priority_max" \in DOMAIN moi
               THEN SelectSeq(f4, LAMBDA i : d[i].priority <= moi.priority_max) ELSE f4
    IN  f5

\* the filter with its lower priority bound made strict
MoiFilterStrictMin(d, moi) ==
    LET all == [i \in 1..Len(d) |-> i]
        f1  == IF "pgn" \in DOMAIN moi
               THEN SelectSeq(all, LAMBDA i : d[i].pgn = moi.pgn) ELSE all
        f2  == IF "sa" \in DOMAIN moi
               THEN SelectSeq(f1, LAMBDA i : d[i].source = moi.sa) ELSE f1
        f3  == IF "da" \in DOMAIN moi /\ Len(d) > 0
               THEN SelectSeq(f2, LAMBDA i : d[i].destination # None
                                             /\ d[i].destination = moi.da)
               ELSE f2
        f4  == IF "priority_min" \in DOMAIN moi
               THEN SelectSeq(f3, LAMBDA i : d[i].priority > moi.priority_min) ELSE f3
        f5  == IF "priority_max" \in DOMAIN moi
               THEN SelectSeq(f4, LAMBDA i : d[i].priority <= moi.priority_max) ELSE f4
    IN  IF DOMAIN moi = {} THEN all ELSE f5

\* _moi_filter(df, moi): the index of the filtered frame, in frame order
MoiFilter(d, moi) ==
    LET all == [i \in 1..Len(d) |-> i]
        f1  == IF "pgn" \in DOMAIN moi
               THEN SelectSeq(all, LAMBDA i : d[i].pgn = moi.pgn) ELSE all
        f2  == IF "sa" \in DOMAIN moi
               THEN SelectSeq(f1, LAMBDA i : d[i].source = moi.sa) ELSE f1
        f3  == IF "da" \in DOMAIN moi /\ Len(d) > 0
               THEN SelectSeq(f2, LAMBDA i : d[i].destination # None
                                             /\ d[i].destination = moi.da)
               ELSE f2
        f4  == IF "priority_min" \in DOMAIN moi
               THEN SelectSeq(f3, LAMBDA i : d[i].priority >= moi.priority_min) ELSE f3
        f5  == IF "priority_max" \in DOMAIN moi
               THEN SelectSeq(f4, LAMBDA i : d[i].priority <= moi.priority_max) ELSE f4
    IN  IF DOMAIN moi = {} THEN all ELSE f5

NoContext(d) == [i \in 1..Len(d) |-> << >>]

(***************************************************************************)
(* rule_engine.py: apply_rule (scope rule)                                 *)
(***************************************************************************)
\* apply_rule(df, rule): the frame and the call log after the evaluation
ApplyRule(st, rule) ==
    LET moi  == Get(rule, "moi", EmptyDict)
        filt == MoiFilter(st.df, moi)
    IN  IF Len(filt) = 0 THEN st
        ELSE AnnotateAll(st, filt, rule, NoContext(st.df))

(***************************************************************************)
(* rule_engine.py: apply_irule (burst rule)                                *)
(***************************************************************************)
Range(f) == {f[i] : i \in DOMAIN f}

RECURSIVE SortByTimestamp(_, _)
\* g.sort_values(by="timestamp") on the rows S of one group; rows of equal
\* timestamp are kept in frame order (their gap is 0 in either order)
SortByTimestamp(d, S) ==
    IF S = {} THEN << >>
    ELSE LET m == CHOOSE i \in S : \A j \in S :
                     \/ d[i].timestamp < d[j].timestamp
                     \/ (d[i].timestamp = d[j].timestamp /\ i <= j)
         IN  <<m>> \o SortByTimestamp(d, S \ {m})

\* delta <= interval_sec (pd.notna(delta) holds past the group's first row)
WithinInterval(delta, interval) == delta <= interval

\* len(window) >= threshold
Qualifies(window, threshold) == Len(window) >= threshold

RECURSIVE ScanGroup(_, _, _, _, _, _, _)
\* the loop over g.iterrows() from its k-th row on; returns indices_to_label
ScanGroup(d, g, k, window, marked, interval, threshold) ==
    IF k > Len(g) THEN marked
    ELSE IF Len(window) = 0
         THEN ScanGroup(d, g, k + 1, <<g[k]>>, marked, interval, threshold)
    ELSE LET delta == d[g[k]].timestamp - d[g[k - 1]].timestamp
         IN  IF WithinInterval(delta, interval)
             THEN LET w == Append(window, g[k])
                  IN  ScanGroup(d, g, k + 1, w,
                                IF Qualifies(w, threshold)
                                THEN marked \cup Range(w) ELSE marked,
                                interval, threshold)
             ELSE ScanGroup(d, g, k + 1, <<g[k]>>, marked, interval, threshold)

\* indices_to_label after the loop over filtered.groupby("can_id")
IndicesToLabel(d, filtered, interval, threshold) ==
    LET ids == {d[i].can_id : i \in Range(filtered)}
        Group(id) == {i \in Range(filtered) : d[i].can_id = id}
    IN  UNION {ScanGroup(d, SortByTimestamp(d, Group(id)), 1, << >>, {},
                         interval, threshold) : id \in ids}

RECURSIVE SetToSeqTwice(_)
\* indices_to_label kept as a list that a window extends at two scan steps:
\* every index is visited twice
SetToSeqTwice(S) ==
    IF S = {} THEN << >>
    ELSE LET m == CHOOSE i \in S : \A j \in S : i <= j
         IN  <<m, m>> \o SetToSeqTwice(S \ {m})

RECURSIVE SetToSeq(_)
\* the iteration order of the set indices_to_label (each index once)
SetToSeq(S) ==
    IF S = {} THEN << >>
    ELSE LET m == CHOOSE i \in S : \A j \in S : i <= j
         IN  <<m>> \o SetToSeq(S \ {m})

\* the burst rule sorting the frame itself by timestamp instead of a copy of
\* each group
ApplyIruleInPlace(st, rule) ==
    LET moi       == Get(rule, "moi", EmptyDict)
        interval  == Get(rule, "interval_ms", 1)
        threshold == Get(rule, "threshold", 5)
        filtered  == MoiFilter(st.df, moi)
        order     == SortByTimestamp(st.df, 1..Len(st.df))
        sorted    == [df |-> [k \in 1..Len(st.df) |-> st.df[order[k]]],
                      calls |-> [k \in 1..Len(st.df) |-> st.calls[order[k]]]]
    IN  IF Len(filtered) = 0 THEN st
        ELSE AnnotateAll(sorted,
                         SetToSeq(IndicesToLabel(sorted.df, MoiFilter(sorted.df, moi),
                                                 interval, threshold)),
                         rule, NoContext(st.df))

\* apply_irule(df, rule)
ApplyIrule(st, rule) ==
    LET moi       == Get(rule, "moi", EmptyDict)
        interval  == Get(rule, "interval_ms", 1)
        threshold == Get(rule, "threshold", 5)
        filtered  == MoiFilter(st.df, moi)
    IN  IF Len(filtered) = 0 THEN st
        ELSE AnnotateAll(st,
                         SetToSeq(IndicesToLabel(st.df, filtered, interval, threshold)),
                         rule, NoContext(st.df))

(***************************************************************************)
(* rule_engine.py: apply_crule (context rule)                              *)
(***************************************************************************)
\* bytes.fromhex(data): ValueError on an odd length or a non-hex character
FromHex(data) ==
    IF Len(data) % 2 = 0 /\ \A i \in 1..Len(data) : IsHexChar(data[i])
    THEN [ok |-> TRUE,
          bytes |-> [i \in 1..(Len(data) \div 2) |->
                        16 * HexVal(data[2 * i - 1]) + HexVal(data[2 * i])]]
    ELSE [ok |-> FALSE, bytes |-> << >>]

RECURSIVE LittleEndian(_)
\* int.from_bytes(b[::-1], byteorder="big")
LittleEndian(b) ==
    IF Len(b) = 0 THEN 0 ELSE b[1] + 256 * LittleEndian(Tail(b))

\* the bytes the context value is read from: b[offset:offset + length]
ContextBytes(b, offset, length) == Slice(b, offset, offset + length)

\* the body of the try block: [ok |-> FALSE] when it raises
ContextSample(row, offset, length, scale) ==
    LET b == FromHex(row.data)
    IN  IF b.ok
        THEN [ok |-> TRUE,
              val |-> LittleEndian(ContextBytes(b.bytes, offset, length)) * scale]
        ELSE [ok |-> FALSE, val |-> 0]

RECURSIVE CtxValues(_, _, _, _, _, _, _)
\* ctx_values after the loop over ctx_df.iterrows(), from its k-th row on:
\* a later row overwrites the entry of an earlier row with the same timestamp
CtxValues(d, ctx_df, k, acc, offset, length, scale) ==
    IF k > Len(ctx_df) THEN acc
    ELSE LET row == d[ctx_df[k]]
             s   == ContextSample(row, offset, length, scale)
         IN  IF s.ok
             THEN CtxValues(d, ctx_df, k + 1,
                            [t \in DOMAIN acc \cup {row.timestamp} |->
                                IF t = row.timestamp THEN s.val ELSE acc[t]],
                            offset, length, scale)
             ELSE CtxValues(d, ctx_df, k + 1, acc, offset, length, scale)

\* only the context samples strictly before the message
StrictlyBefore(t, ts) == t < ts

\* the candidate context timestamps for a message at ts: t <= ts
AtOrBefore(t, ts) == t <= ts

\* max((t for t in ctx_times if t <= ts), default=None)
PrevCtxTs(ctx_times, ts) ==
    LET c == {t \in ctx_times : AtOrBefore(t, ts)}
    IN  IF c = {} THEN None ELSE CHOOSE t \in c : \A u \in c : u <= t

\* the comparator chain of apply_crule
Fired(comparator, v, threshold) ==
    \/ (comparator = ">"  /\ v >  threshold)
    \/ (comparator = "<"  /\ v <  threshold)
    \/ (comparator = "==" /\ v =  threshold)
    \/ (comparator = ">=" /\ v >= threshold)
    \/ (comparator = "<=" /\ v <= threshold)

\* apply_crule returns before reading the frame
CruleSkipped(rule) ==
    LET moi == Get(rule, "moi", EmptyDict)
        ctx == Get(rule, "context", EmptyDict)
    IN  "pgn" \notin DOMAIN moi \/ "pgn" \notin DOMAIN ctx

\* df[df["pgn"] == ctx_pgn] raises KeyError on a frame without columns
CruleRaises(d, rule) == ~CruleSkipped(rule) /\ Len(d) = 0

\* apply_crule(df, rule) on a frame with columns
ApplyCrule(st, rule) ==
    LET d          == st.df
        moi        == Get(rule, "moi", EmptyDict)
        ctx        == Get(rule, "context", EmptyDict)
        offset     == Get(ctx, "offset", 0)
        length     == Get(ctx, "length", 1)
        scale      == Get(ctx, "scale", 1)
        comparator == Get(ctx, "comparator", ">")
        threshold  == Get(ctx, "threshold", 0)
        all        == [i \in 1..Len(d) |-> i]
        by_pgn     == SelectSeq(all, LAMBDA i : d[i].pgn = ctx.pgn)
        ctx_df     == IF "sa" \in DOMAIN ctx
                      THEN SelectSeq(by_pgn, LAMBDA i : d[i].source = ctx.sa)
                      ELSE by_pgn
        ctx_values == CtxValues(d, ctx_df, 1, EmptyDict, offset, length, scale)
        ctx_times  == DOMAIN ctx_values
        moi_df     == MoiFilter(d, moi)
        Evaluated(i) == PrevCtxTs(ctx_times, d[i].timestamp) # None
        Value(i)   == ctx_values[PrevCtxTs(ctx_times, d[i].timestamp)]
        fire       == SelectSeq(moi_df, LAMBDA i :
                          Evaluated(i) /\ Fired(comparator, Value(i), threshold))
        cv         == [i \in 1..Len(d) |->
                          IF Evaluated(i) THEN <<Value(i)>> ELSE << >>]
    IN  IF CruleSkipped(rule) THEN st
        ELSE IF DOMAIN ctx_values = {} THEN st
        ELSE AnnotateAll(st, fire, rule, cv)

(***************************************************************************)
(* The pipeline of cli.main: parse_candump, then apply_rules               *)
(***************************************************************************)
\* the loop left at the first malformed line: the lines after it are not read
ParseLineAbort ==
    /\ stage = "parse"
    /\ Len(lines) > 0
    /\ LET parts == Head(lines)
           dec   == DecodeLine(parts)
       IN  IF Len(parts) = 0
           THEN lines' = Tail(lines) /\ UNCHANGED <<records, reported>>
           ELSE IF dec.ok
                THEN /\ records' = Append(records, dec.rec)
                     /\ lines' = Tail(lines)
                     /\ UNCHANGED reported
                ELSE /\ reported' = Append(reported, parts)
                     /\ lines' = << >>
                     /\ UNCHANGED records
    /\ UNCHANGED <<input, df, rules, ri, stage, calls, before>>

\* one iteration of `for line in f` (a line is given split into its parts;
\* a blank line has none and is passed over)
ParseLine ==
    /\ stage = "parse"
    /\ Len(lines) > 0
    /\ LET parts == Head(lines)
           dec   == DecodeLine(parts)
       IN  /\ lines' = Tail(lines)
           /\ IF Len(parts) = 0
              THEN UNCHANGED <<records, reported>>
              ELSE IF dec.ok
                   THEN records' = Append(records, dec.rec) /\ UNCHANGED reported
                   ELSE reported' = Append(reported, parts) /\ UNCHANGED records
    /\ UNCHANGED <<input, df, rules, ri, stage, calls, before>>

\* return pd.DataFrame(records); apply_rules adds the provenance columns
StartRules ==
    /\ stage = "parse"
    /\ Len(lines) = 0
    /\ df' = Frame(records)
    /\ before' = Frame(records)
    /\ calls' = [i \in 1..Len(records) |-> << >>]
    /\ stage' = "rules"
    /\ UNCHANGED <<input, lines, records, reported, rules, ri>>

\* the rule of the current iteration of `for rule in rules`
CurrentRule == rules[ri + 1]

\* rule.get("type")
RuleType(rule) == Get(rule, "type", "None")

InLoop == stage = "rules" /\ ri < Len(rules)

\* the exception leaves apply_rules and cli.main
Crash ==
    /\ stage' = "crashed"
    /\ UNCHANGED <<input, lines, records, reported, df, rules, ri, calls, before>>

Continue(st) ==
    /\ df' = st.df
    /\ before' = df
    /\ calls' = st.calls
    /\ ri' = ri + 1
    /\ UNCHANGED <<input, lines, records, reported, rules, stage>>

\* rtype == "rule": apply_rule(df, rule)
StepScope ==
    /\ InLoop
    /\ RuleType(CurrentRule) = "rule"
    /\ IF MoiFilterRaises(df, Get(CurrentRule, "moi", EmptyDict))
       THEN Crash
       ELSE Continue(ApplyRule([df |-> df, calls |-> calls], CurrentRule))

\* rtype == "irule": apply_irule(df, rule)
StepBurst ==
    /\ InLoop
    /\ RuleType(CurrentRule) = "irule"
    /\ IF MoiFilterRaises(df, Get(CurrentRule, "moi", EmptyDict))
       THEN Crash
       ELSE Continue(ApplyIrule([df |-> df, calls |-> calls], CurrentRule))

\* rtype == "crule": apply_crule(df, rule)
StepContext ==
    /\ InLoop
    /\ RuleType(CurrentRule) = "crule"
    /\ IF CruleRaises(df, CurrentRule)
       THEN Crash
       ELSE Continue(ApplyCrule([df |-> df, calls |-> calls], CurrentRule))

\* else: the warning, and the next rule
StepUnknown ==
    /\ InLoop
    /\ RuleType(CurrentRule) \notin {"rule", "irule", "crule"}
    /\ Continue([df |-> df, calls |-> calls])

(***************************************************************************)
(* Inputs: identifiers, rows and rules the runs are drawn from             *)
(***************************************************************************)
MaxRules == 3

MaxRecs == 2

SeqsUpTo(S, n) == UNION {[1..k -> S] : k \in 0..n}

\* a 29-bit identifier from its J1939 fields
MakeId(priority, pf, ps, sa) ==
    priority * (2 ^ 26) + pf * (2 ^ 16) + ps * (2 ^ 8) + sa

\* PDU1: pgn 61184 (0xEF00), destination 33, source 5, priority 6
IdA == MakeId(6, 239, 33, 5)

\* PDU2: pgn 61444 (0xF004), source 0, priority 3
IdB == MakeId(3, 240, 4, 0)

\* PDU1: pgn 61184 as IdA, from source 6
IdC == MakeId(6, 239, 33, 6)

Can0 == <<"c", "a", "n", "0">>

\* a context record (value 10 at time 10) and a message of interest
RowCatalogue ==
    { Row(10, Can0, IdB, 1, <<"0", "A">>),
      Row(25, Can0, IdA, 0, << >>) }

Stores == SeqsUpTo(RowCatalogue, MaxRecs)

RuleA ==
    [type |-> "rule", name |-> <<"A">>, label |-> "scan", semantics |-> " usage ",
     metadata |-> [severity |-> "low", layer |-> "net", description |-> "d1"],
     moi |-> [pgn |-> 61184]]

RuleB ==
    [type |-> "rule", name |-> <<"B">>, label |-> "flood", semantics |-> "usage",
     metadata |-> [severity |-> "HIGH", layer |-> "app", description |-> "d2"]]

\* a rule without name, label and metadata
RuleU == [type |-> "rule", moi |-> [sa |-> 5]]

RuleC ==
    [type |-> "irule", name |-> <<"C">>, label |-> "burst", semantics |-> "temporal",
     metadata |-> [severity |-> "medium"],
     interval_ms |-> 10, threshold |-> 2, moi |-> [pgn |-> 61184]]

RuleD ==
    [type |-> "crule", name |-> <<"D">>, label |-> "state", semantics |-> "state",
     metadata |-> [severity |-> "low", layer |-> "ctl", description |-> "d4"],
     moi |-> [pgn |-> 61184],
     context |-> [pgn |-> 61444, offset |-> 0, length |-> 1,
                  comparator |-> ">=", threshold |-> 10]]

\* a second context rule on the same signal, read at another scale
RuleE ==
    [type |-> "crule", name |-> <<"E">>, label |-> "limit", semantics |-> "state",
     metadata |-> [severity |-> "high", layer |-> "ctl", description |-> "d5"],
     moi |-> [pgn |-> 61184],
     context |-> [pgn |-> 61444, sa |-> 0, scale |-> 2,
                  comparator |-> ">", threshold |-> 0]]

RuleX == [type |-> "xrule", name |-> <<"X">>]

RuleCatalogue == {RuleA, RuleB, RuleU, RuleC, RuleD, RuleE, RuleX}

\* apply_rules entered with the frame of `store` and the rule list `rs`
AtRules(store, rs) ==
    /\ input = << >>
    /\ lines = << >>
    /\ records = store
    /\ reported = << >>
    /\ df = Frame(store)
    /\ before = Frame(store)
    /\ rules = rs
    /\ ri = 0
    /\ stage = "rules"
    /\ calls = [i \in 1..Len(store) |-> << >>]

(***************************************************************************)
(* Spec: any rule list of the catalogue evaluated on any store             *)
(***************************************************************************)
Init == \E store \in Stores, rs \in SeqsUpTo(RuleCatalogue, MaxRules) : AtRules(store, rs)

Next == StepScope \/ StepBurst \/ StepContext \/ StepUnknown

Spec == Init /\ [][Next]_vars

(***************************************************************************)
(* Properties of the annotator and the scope rule, under Spec              *)
(***************************************************************************)
\* the severity rank of a rule: high 2, medium 1, low 0, anything else -1
RankOf(rule) ==
    LET sev == Lower(Get(Get(rule, "metadata", EmptyDict), "severity", ""))
    IN  CASE sev = "high" -> 2 [] sev = "medium" -> 1 [] sev = "low" -> 0
          [] OTHER -> -1

\* the call of highest rank, the last one among those of that rank
Winner(cs) ==
    CHOOSE k \in 1..Len(cs) :
        /\ \A j \in 1..Len(cs) : RankOf(cs[j].rule) <= RankOf(cs[k].rule)
        /\ \A j \in (k + 1)..Len(cs) : RankOf(cs[j].rule) < RankOf(cs[k].rule)

SixFields(row) ==
    <<row.label, row.rule_type, row.semantics, row.rule_severity,
      row.rule_layer, row.rule_description>>

\* what a rule writes into the six fields when it takes the label
RuleFields(rule) ==
    LET meta == Get(rule, "metadata", EmptyDict)
    IN  <<Get(rule, "label", "anomalous"), Get(rule, "type", ""),
          StripWs(Get(rule, "semantics", "")), Lower(Get(meta, "severity", "")),
          Get(meta, "layer", ""), Get(meta, "description", "")>>

RuleName(rule) == Get(rule, "name", << >>)

\* C1: after any sequence of rule firings on a record, its label, rule_type,
\* semantics, rule_severity, rule_layer and rule_description are those of the
\* fired rule of highest severity rank, the last fired among those of that rank.
C1_HighestSeverityWins ==
    \A i \in 1..Len(df) :
        Len(calls[i]) > 0 =>
            SixFields(df[i]) = RuleFields(calls[i][Winner(calls[i])].rule)

\* three firings on one record, a scope and a context rule among them: the
\* first two tie on the highest rank, the third ranks lower and loses
C1_Witness ==
    \E i \in 1..Len(df) :
        /\ Len(calls[i]) = 3
        /\ RankOf(calls[i][1].rule) = RankOf(calls[i][2].rule)
        /\ RankOf(calls[i][3].rule) < RankOf(calls[i][2].rule)
        /\ RuleFields(calls[i][1].rule) # RuleFields(calls[i][2].rule)
        /\ {RuleType(calls[i][k].rule) : k \in 1..3} = {"rule", "crule"}

\* the two calls of a record in the other order, from the parsed record
Reversed(i) ==
    AnnotateRow(AnnotateRow(WithProvenance(records[i]),
                            calls[i][2].rule, calls[i][2].context_value),
                calls[i][1].rule, calls[i][1].context_value)

TwoRanks(i) ==
    /\ Len(calls[i]) = 2
    /\ RankOf(calls[i][1].rule) # RankOf(calls[i][2].rule)

Higher(i) ==
    IF RankOf(calls[i][1].rule) > RankOf(calls[i][2].rule)
    THEN calls[i][1].rule ELSE calls[i][2].rule

IsPrefix(a, b) == Len(a) <= Len(b) /\ SubSeq(b, 1, Len(a)) = a

RECURSIVE PipeJoin(_)
\* names joined by "|": a separator before every name but the first
PipeJoin(names) ==
    IF Len(names) = 0 THEN << >>
    ELSE IF Len(names) = 1 THEN names[1]
    ELSE PipeJoin(SubSeq(names, 1, Len(names) - 1)) \o <<"|">> \o names[Len(names)]

CallNames(i) == [k \in 1..Len(calls[i]) |-> RuleName(calls[i][k].rule)]

\* C8: rule_name only grows: its value before a rule evaluation is a prefix of
\* its value after it, and it is the names of the rules fired on the record,
\* in firing order, each after a "|" separator except the first.
C8_Original ==
    \A i \in 1..Len(df) :
        /\ IsPrefix(before[i].rule_name, df[i].rule_name)
        /\ df[i].rule_name = PipeJoin(CallNames(i))

RECURSIVE Split(_)
\* s.split("|")
Split(s) ==
    IF \A k \in 1..Len(s) : s[k] # "|" THEN <<s>>
    ELSE LET k == CHOOSE k \in 1..Len(s) : s[k] = "|" /\ \A j \in 1..(k - 1) : s[j] # "|"
         IN  <<SubSeq(s, 1, k - 1)>> \o Split(SubSeq(s, k + 1, Len(s)))

\* the pipe-joined entries of a rule_name cell; the empty cell has none
Entries(s) == IF Len(s) = 0 THEN << >> ELSE Split(s)

Occurrences(s, name) == Cardinality({k \in 1..Len(Entries(s)) : Entries(s)[k] = name})

\* the options of a moi predicate, each a test on the row
Satisfies(row, moi) ==
    /\ ("pgn" \in DOMAIN moi => row.pgn = moi.pgn)
    /\ ("sa" \in DOMAIN moi => row.source = moi.sa)
    /\ ("da" \in DOMAIN moi => row.pdu_type = "PDU1" /\ row.pdu_specific = moi.da)
    /\ ("priority_min" \in DOMAIN moi => row.priority >= moi.priority_min)
    /\ ("priority_max" \in DOMAIN moi => row.priority <= moi.priority_max)

\* the latest step evaluated a scope rule to its end
AfterScope == stage = "rules" /\ ri >= 1 /\ RuleType(rules[ri]) = "rule"

\* C9: the second of two evaluations in a row of one scope rule leaves the six
\* fields of every matching record as the first left them, and each of the two
\* evaluations adds one pipe-joined occurrence of the rule's name to rule_name.
C9_Original ==
    AfterScope =>
        \A i \in 1..Len(df) :
            Satisfies(before[i], Get(rules[ri], "moi", EmptyDict)) =>
                /\ Occurrences(df[i].rule_name, RuleName(rules[ri]))
                       = Occurrences(before[i].rule_name, RuleName(rules[ri])) + 1
                /\ (ri >= 2 /\ rules[ri - 1] = rules[ri]
                       => SixFields(df[i]) = SixFields(before[i]))

\* C10: a scope rule annotates exactly the records that satisfy its moi
\* predicate, each once; every other record is left as it was; a record no
\* rule has fired on has label "normal" and empty provenance.
C10_ScopeFrame ==
    /\ AfterScope =>
           \A i \in 1..Len(df) :
               IF Satisfies(before[i], Get(rules[ri], "moi", EmptyDict))
               THEN /\ df[i] = AnnotateRow(before[i], rules[ri], << >>)
                    /\ Len(calls[i]) >= 1
                    /\ calls[i][Len(calls[i])].rule = rules[ri]
               ELSE df[i] = before[i]
    /\ \A i \in 1..Len(df) :
           Len(calls[i]) = 0 => df[i] = WithProvenance(records[i])
    /\ \A i \in 1..Len(df) :
           /\ WithProvenance(records[i]).label = "normal"
           /\ \A k \in DOMAIN Provenance : WithProvenance(records[i])[k] = Provenance[k]
           /\ Len(Provenance.rule_name) = 0 /\ Len(Provenance.context_value) = 0
           /\ \A k \in DOMAIN Provenance \ {"rule_name", "context_value"} :
                  Provenance[k] = ""

\* a scope rule with a moi has annotated one record and passed over another,
\* on which no rule has fired
C10_Witness ==
    /\ AfterScope
    /\ DOMAIN Get(rules[ri], "moi", EmptyDict) # {}
    /\ \E i, j \in 1..Len(df) :
           /\ Satisfies(before[i], rules[ri].moi)
           /\ df[i].label # "normal"
           /\ ~Satisfies(before[j], rules[ri].moi)
           /\ Len(calls[j]) = 0
           /\ df[j].label = "normal"

(***************************************************************************)
(* SpecBurst: one burst rule evaluated on a store of timed records         *)
(***************************************************************************)
MaxBurstRecs == 4

BurstTimes == {0, 50, 100, 300, 350}

BurstRows == {Row(t, Can0, id, 0, << >>) : t \in BurstTimes, id \in {IdA, IdC}}

\* five records of one identifier at gaps 50, 50, 200, 50
BurstExample ==
    <<Row(0, Can0, IdA, 0, << >>), Row(50, Can0, IdA, 0, << >>),
      Row(100, Can0, IdA, 0, << >>), Row(300, Can0, IdA, 0, << >>),
      Row(350, Can0, IdA, 0, << >>)>>

BurstStores == SeqsUpTo(BurstRows, MaxBurstRecs) \cup {BurstExample}

BurstRule(interval, threshold, moi) ==
    [type |-> "irule", name |-> <<"C">>, label |-> "burst", semantics |-> "temporal",
     metadata |-> [severity |-> "medium"],
     interval_ms |-> interval, threshold |-> threshold, moi |-> moi]

BurstRules ==
    {BurstRule(interval, threshold, moi) :
        interval \in {50, 100}, threshold \in {1, 2, 3},
        moi \in {EmptyDict, [sa |-> 5]}}

InitBurst == \E store \in BurstStores, r \in BurstRules : AtRules(store, <<r>>)

SpecBurst == InitBurst /\ [][StepBurst]_vars

\* the latest step evaluated the burst rule to its end
AfterBurst == stage = "rules" /\ ri = 1 /\ RuleType(rules[1]) = "irule"

\* the eligible records of the identifier of record i
Peers(d, i, moi) ==
    {j \in 1..Len(d) : Satisfies(d[j], moi) /\ d[j].can_id = d[i].can_id}

\* a and b are immediately consecutive in time among P and more than
\* `interval` apart
Break(d, P, a, b, interval) ==
    /\ d[a].timestamp < d[b].timestamp
    /\ \A c \in P : ~(d[a].timestamp < d[c].timestamp /\ d[c].timestamp < d[b].timestamp)
    /\ d[b].timestamp - d[a].timestamp > interval

\* the maximal run of record i: the peers no break separates from it
RunOf(d, i, moi, interval) ==
    LET P == Peers(d, i, moi)
    IN  {j \in P :
            \A a, b \in P :
                Break(d, P, a, b, interval) =>
                    ~(/\ d[a].timestamp >= d[i].timestamp \/ d[a].timestamp >= d[j].timestamp
                      /\ d[b].timestamp <= d[i].timestamp \/ d[b].timestamp <= d[j].timestamp)}

InQualifyingRun(d, i, rule) ==
    /\ Satisfies(d[i], rule.moi)
    /\ Cardinality(RunOf(d, i, rule.moi, rule.interval_ms)) >= rule.threshold

\* C2: for every threshold K >= 1, a burst rule annotates a record if and only
\* if the record passes the moi filter and lies in a maximal run of eligible
\* records of its identifier, consecutive gaps <= interval, of at least K records.
C2_Original ==
    AfterBurst =>
        \A i \in 1..Len(df) :
            (Len(calls[i]) = 1) <=> InQualifyingRun(before, i, rules[1])

(***************************************************************************)
(* SpecContext: one context rule evaluated on a store of context and       *)
(* message-of-interest records                                             *)
(***************************************************************************)
MaxCtxRecs == 3

\* context records (IdB, pgn 61444): payloads 0A (10), 28 00 (40), an empty
\* payload and a payload of odd length; messages of interest (IdA, pgn 61184)
ContextRows ==
    {Row(t, Can0, IdB, 1, <<"0", "A">>) : t \in {10, 25, 30}}
    \cup {Row(t, Can0, IdB, 2, <<"2", "8", "0", "0">>) : t \in {10, 25, 30}}
    \cup {Row(20, Can0, IdB, 0, << >>), Row(20, Can0, IdB, 1, <<"0", "A", "B">>)}
    \cup {Row(25, Can0, IdA, 0, << >>), Row(5, Can0, IdA, 0, << >>)}

ContextStores == SeqsUpTo(ContextRows, MaxCtxRecs)

ContextRule(comparator, length) ==
    [type |-> "crule", name |-> <<"D">>, label |-> "state", semantics |-> "state",
     metadata |-> [severity |-> "low", layer |-> "ctl", description |-> "d4"],
     moi |-> [pgn |-> 61184],
     context |-> [pgn |-> 61444, offset |-> 0, length |-> length,
                  comparator |-> comparator, threshold |-> 10]]

ContextRules ==
    {ContextRule(comparator, length) :
        comparator \in {">", "<", "==", ">=", "<=", "!="}, length \in {1, 2}}

InitContext == \E store \in ContextStores, r \in ContextRules : AtRules(store, <<r>>)

SpecContext == InitContext /\ [][StepContext]_vars

\* the latest step evaluated the context rule to its end
AfterContext == stage = "rules" /\ ri = 1 /\ RuleType(rules[1]) = "crule"

\* the records a context descriptor selects
Selected(d, ctx) ==
    {j \in 1..Len(d) :
        d[j].pgn = ctx.pgn /\ ("sa" \in DOMAIN ctx => d[j].source = ctx.sa)}

\* the payload has the offset + length bytes the descriptor reads
FullSize(row, ctx) ==
    /\ FromHex(row.data).ok
    /\ Len(FromHex(row.data).bytes) >= Get(ctx, "offset", 0) + Get(ctx, "length", 1)

\* the value read from a context record
SampleValue(row, ctx) ==
    ContextSample(row, Get(ctx, "offset", 0), Get(ctx, "length", 1),
                  Get(ctx, "scale", 1)).val

\* sample j of S is the one in force at time T: none of S is later and still
\* at or before T (of two samples of one timestamp, the later record counts)
InForce(d, S, j, T) ==
    /\ j \in S
    /\ d[j].timestamp <= T
    /\ \A k \in S :
           d[k].timestamp <= T =>
               \/ d[k].timestamp < d[j].timestamp
               \/ (d[k].timestamp = d[j].timestamp /\ k <= j)

Compare(comparator, v, threshold) ==
    CASE comparator = ">"  -> v > threshold
      [] comparator = "<"  -> v < threshold
      [] comparator = "==" -> v = threshold
      [] comparator = ">=" -> v >= threshold
      [] comparator = "<=" -> v <= threshold
      [] OTHER -> FALSE

\* record i is annotated exactly when it is a message of interest and the
\* sample of S in force at its time satisfies the comparator, and then
\* carries that sample's value
LooksUp(d, rule, S, i) ==
    LET ctx == rule.context
        hit == {j \in S : InForce(d, S, j, d[i].timestamp)}
    IN  /\ (Len(calls[i]) = 1) <=>
               /\ Satisfies(d[i], rule.moi)
               /\ \E j \in hit :
                      Compare(ctx.comparator, SampleValue(d[j], ctx), ctx.threshold)
        /\ Len(calls[i]) = 1 =>
               \E j \in hit : df[i].context_value = <<SampleValue(d[j], ctx)>>

\* C3: a context record whose payload has fewer than offset + length bytes
\* contributes no context sample: the rule looks up only the full-size ones.
C3_Original ==
    AfterContext =>
        \A i \in 1..Len(df) :
            LooksUp(before, rules[1],
                    {j \in Selected(before, rules[1].context) :
                        FullSize(before[j], rules[1].context)}, i)

\* the series apply_crule builds: the selected records whose data decodes
Samples(d, ctx) == {j \in Selected(d, ctx) : FromHex(d[j].data).ok}

\* C4: for a message of interest at time T a context rule compares the value
\* of the context sample of greatest timestamp <= T: a sample at exactly T is
\* used, one after T never, and without a sample at or before T the record
\* is not annotated.
C4_LatestAtOrBefore ==
    AfterContext =>
        \A i \in 1..Len(df) :
            LooksUp(before, rules[1], Samples(before, rules[1].context), i)

\* a message of interest annotated with the value of the sample at exactly
\* its time, while a sample after its time, earlier in the store, holds a
\* value the comparator rejects
C4_Witness ==
    /\ AfterContext
    /\ \E i, j, k \in 1..Len(df) :
           /\ Len(calls[i]) = 1
           /\ j \in Samples(df, rules[1].context)
           /\ df[j].timestamp = df[i].timestamp
           /\ df[i].context_value = <<SampleValue(df[j], rules[1].context)>>
           /\ k \in Samples(df, rules[1].context)
           /\ k < i
           /\ df[k].timestamp > df[i].timestamp
           /\ ~Compare(rules[1].context.comparator,
                       SampleValue(df[k], rules[1].context),
                       rules[1].context.threshold)

(***************************************************************************)
(* SpecParse: parse_candump on a capture of well-formed and malformed      *)
(* lines, up to the frame handed to apply_rules                            *)
(***************************************************************************)
MaxLines == 3

\* the identifier as candump prints it: eight hex digits
ToHex8(n) == [i \in 1..8 |-> HexChars[((n \div (16 ^ (8 - i))) % 16) + 1]]

Ts10 == <<"(", "1", "0", ")">>

Ts25 == <<"(", "2", "5", ")">>

Dlc(c) == <<"[", c, "]">>

\* a well-formed line: two byte tokens for length code 2, one in lower case
LineOk == <<Ts10, Can0, ToHex8(IdA), Dlc("2"), <<"0", "A">>, <<"f", "f">>>>

\* length code 2 and a single byte token
LineShort == <<Ts25, Can0, ToHex8(IdA), Dlc("2"), <<"0", "A">>>>

\* length code 2 and no byte token
LineNoBytes == <<Ts25, Can0, ToHex8(IdB), Dlc("2")>>

\* more byte tokens than the length code
LineExtra == <<Ts25, Can0, ToHex8(IdB), Dlc("1"), <<"2", "8">>, <<"0", "0">>>>

\* byte tokens of one and of three characters
LineOneChar == <<Ts10, Can0, ToHex8(IdB), Dlc("1"), <<"B">>>>

LineThreeChar == <<Ts10, Can0, ToHex8(IdB), Dlc("1"), <<"1", "2", "3">>>>

\* a length code without brackets
LineNoBrackets == <<Ts10, Can0, ToHex8(IdA), <<"0">>>>

LineBadTimestamp == <<<<"(", "x", ")">>, Can0, ToHex8(IdA), Dlc("0")>>

LineBadId == <<Ts10, Can0, <<"Z", "Z">>, Dlc("0")>>

LineBadDlc == <<Ts10, Can0, ToHex8(IdA), <<"[", "]">>>>

LineTruncated == <<Ts10, Can0>>

LineBlank == << >>

\* an identifier of more than 29 bits (bit 29 set)
LineWideId == <<Ts10, Can0, ToHex8(2 ^ 29 + IdA), Dlc("0")>>

LineCatalogue ==
    {LineOk, LineShort, LineNoBytes, LineExtra, LineOneChar, LineThreeChar,
     LineNoBrackets, LineBadTimestamp, LineBadId, LineBadDlc, LineTruncated,
     LineBlank, LineWideId}

\* parse_candump entered with the lines of the file, and the rule list `rs`
AtParse(file, rs) ==
    /\ input = file
    /\ lines = file
    /\ records = << >>
    /\ reported = << >>
    /\ df = << >>
    /\ before = << >>
    /\ rules = rs
    /\ ri = 0
    /\ stage = "parse"
    /\ calls = << >>

InitParse == \E file \in SeqsUpTo(LineCatalogue, MaxLines) : AtParse(file, << >>)

NextParse == ParseLine \/ StartRules

SpecParse == InitParse /\ [][NextParse]_vars

\* the line declares a length code and carries fewer byte tokens after it
FewerBytesThanDeclared(parts) ==
    /\ Len(parts) >= 4
    /\ ParseDec(Strip(parts[4], {"[", "]"})).ok
    /\ Len(parts) - 4 < ParseDec(Strip(parts[4], {"[", "]"})).val

\* C5: parse_candump produces no record for a line that carries fewer byte
\* tokens than its length code declares: the line is reported and skipped,
\* the record list is left as it was, and the next line is read.
C5_Original ==
    [][(stage = "parse" /\ Len(lines) > 0 /\ FewerBytesThanDeclared(Head(lines)))
          => /\ records' = records
             /\ reported' = Append(reported, Head(lines))
             /\ lines' = Tail(lines)]_vars

\* C12: the data string of every record has exactly 2 * dlc characters, all
\* of them uppercase hexadecimal digits.
C12_Original ==
    \A i \in 1..Len(records) :
        /\ Len(records[i].data) = 2 * records[i].dlc
        /\ \A k \in 1..Len(records[i].data) :
               \E h \in 1..16 : records[i].data[k] = HexChars[h]

\* the lines read so far
Consumed == SubSeq(input, 1, Len(input) - Len(lines))

RECURSIVE DecodedOf(_)
\* the records of the lines of ls that decode, in the order of ls
DecodedOf(ls) ==
    IF Len(ls) = 0 THEN << >>
    ELSE LET l == ls[Len(ls)]
             r == DecodedOf(SubSeq(ls, 1, Len(ls) - 1))
         IN  IF Len(l) > 0 /\ DecodeLine(l).ok THEN Append(r, DecodeLine(l).rec) ELSE r

\* the lines of ls that are neither blank nor decode
MalformedOf(ls) == SelectSeq(ls, LAMBDA l : Len(l) > 0 /\ ~DecodeLine(l).ok)

\* C13: at every point of the read loop the records are one per line read so
\* far that decodes, in the order of those lines; a malformed line adds no
\* record, changes no earlier one, and the lines after it are still read.
C13_OnePerDecodedLine ==
    /\ lines = SubSeq(input, Len(input) - Len(lines) + 1, Len(input))
    /\ records = DecodedOf(Consumed)
    /\ reported = MalformedOf(Consumed)
    /\ stage # "parse" => Len(lines) = 0

\* the whole file read: a record, a malformed line, a record
C13_Witness ==
    /\ stage = "rules"
    /\ Len(input) = 3
    /\ DecodeLine(input[1]).ok
    /\ Len(input[2]) > 0 /\ ~DecodeLine(input[2]).ok
    /\ DecodeLine(input[3]).ok
    /\ input[1] # input[3]
    /\ Len(records) = 2 /\ Len(reported) = 1

\* C18: the can_id of every record lies in 0..2^29-1.
C18_Original ==
    \A i \in 1..Len(records) : records[i].can_id >= 0 /\ records[i].can_id < 2 ^ 29

(***************************************************************************)
(* SpecDecode: the same line read twice, over a range of identifiers       *)
(***************************************************************************)
IdSpace ==
    {MakeId(priority, pf, ps, sa) :
        priority \in {0, 3, 7}, pf \in {0, 239, 240, 255},
        ps \in {0, 33, 255}, sa \in {0, 5, 255}}
    \cup {2 ^ 29 + IdA, 2 ^ 30 + IdB}

LineOf(id) == <<Ts10, Can0, ToHex8(id), Dlc("0")>>

InitDecode == \E id \in IdSpace : AtParse(<<LineOf(id), LineOf(id)>>, << >>)

SpecDecode == InitDecode /\ [][NextParse]_vars

\* C7: priority = (id >> 26) & 7, pf = (id >> 16) & 0xFF, ps = (id >> 8) & 0xFF,
\* sa = id & 0xFF; with pf < 240 the mode is PDU1, destination = ps and
\* pgn = pf << 8; with pf >= 240 the mode is PDU2, destination is absent and
\* pgn = (pf << 8) | ps; the same identifier decodes to the same triple.
C7_DecodeFields ==
    \A k \in 1..Len(records) :
        LET r  == records[k]
            id == r.can_id
            pf == (id \div 65536) % 256
            ps == (id \div 256) % 256
        IN  /\ r.priority = (id \div 67108864) % 8
            /\ r.pdu_format = pf
            /\ r.pdu_specific = ps
            /\ r.source = id % 256
            /\ pf < 240 =>
                   /\ r.pdu_type = "PDU1"
                   /\ r.destination = ps
                   /\ r.pgn = pf * 256
                   /\ r.pgn % 256 = 0
            /\ pf >= 240 =>
                   /\ r.pdu_type = "PDU2"
                   /\ r.destination = None
                   /\ r.pgn = pf * 256 + ps
            /\ \A j \in 1..Len(records) :
                   records[j].can_id = id =>
                       /\ records[j].pgn = r.pgn
                       /\ records[j].destination = r.destination
                       /\ records[j].pdu_type = r.pdu_type

\* an identifier on the boundary pf = 240, with a non-zero ps, decoded twice
C7_Witness ==
    /\ Len(records) = 2
    /\ records[1].can_id = records[2].can_id
    /\ records[1].pdu_format = 240
    /\ records[1].pdu_specific = 33
    /\ records[1].pgn = 61473

(***************************************************************************)
(* SpecSkip: rule lists holding rules that cannot be applied               *)
(***************************************************************************)
\* a rule document without a type key
RuleNoType == [name |-> <<"N">>, label |-> "scan", moi |-> [pgn |-> 61184]]

\* a context rule whose moi has no pgn
RuleNoMoiPgn ==
    [type |-> "crule", name |-> <<"F">>, metadata |-> [severity |-> "high"],
     moi |-> [sa |-> 5],
     context |-> [pgn |-> 61444, comparator |-> ">=", threshold |-> 0]]

\* a context rule whose context descriptor has no pgn
RuleNoCtxPgn ==
    [type |-> "crule", name |-> <<"G">>, metadata |-> [severity |-> "high"],
     moi |-> [pgn |-> 61184],
     context |-> [sa |-> 0, comparator |-> ">=", threshold |-> 0]]

\* a context rule on a group number no record of the stores carries
RuleNoMatch ==
    [type |-> "crule", name |-> <<"H">>, metadata |-> [severity |-> "high"],
     moi |-> [pgn |-> 61184],
     context |-> [pgn |-> 65265, comparator |-> ">=", threshold |-> 0]]

SkipCatalogue ==
    {RuleX, RuleNoType, RuleNoMoiPgn, RuleNoCtxPgn, RuleNoMatch, RuleA, RuleC, RuleD}

InitSkip == \E store \in Stores, rs \in SeqsUpTo(SkipCatalogue, MaxRules) : AtRules(store, rs)

SpecSkip == InitSkip /\ [][Next]_vars

\* the body of the loop of apply_rules on one rule, run to its end
Evaluate(st, rule) ==
    CASE RuleType(rule) = "rule"  -> ApplyRule(st, rule)
      [] RuleType(rule) = "irule" -> ApplyIrule(st, rule)
      [] RuleType(rule) = "crule" -> ApplyCrule(st, rule)
      [] OTHER -> st

RECURSIVE EvaluateAll(_, _)
\* the loop of apply_rules over the rule list rs
EvaluateAll(st, rs) ==
    IF Len(rs) = 0 THEN st ELSE EvaluateAll(Evaluate(st, Head(rs)), Tail(rs))

\* a rule that cannot be applied to the store d: of unknown type, a context
\* rule without pgn in its moi or its descriptor, or a context rule whose
\* descriptor selects no record
Inapplicable(d, rule) ==
    \/ RuleType(rule) \notin {"rule", "irule", "crule"}
    \/ /\ RuleType(rule) = "crule"
       /\ LET moi == Get(rule, "moi", EmptyDict)
              ctx == Get(rule, "context", EmptyDict)
          IN  \/ "pgn" \notin DOMAIN moi
              \/ "pgn" \notin DOMAIN ctx
              \/ Selected(d, ctx) = {}

\* C11: a rule that cannot be applied (unknown type, context rule without a
\* pgn in moi or descriptor, context rule whose descriptor selects no record)
\* raises nothing, leaves every field of every record unchanged, and the
\* rules after it have the effect they have without it.
C11_Original ==
    /\ stage = "crashed" => ~Inapplicable(df, CurrentRule)
    /\ (stage = "rules" /\ ri >= 1 /\ Inapplicable(before, rules[ri])) => df = before
    /\ (stage = "rules" /\ ri = Len(rules)) =>
           df = EvaluateAll([df |-> Frame(records),
                             calls |-> [i \in 1..Len(records) |-> << >>]],
                            SelectSeq(rules, LAMBDA r :
                                ~Inapplicable(Frame(records), r))).df

(***************************************************************************)
(* SpecFilter: one scope rule, its moi drawn over all option subsets       *)
(***************************************************************************)
MaxFilterRecs == 2

\* PDU1: pgn 61184, destination 34, source 5, priority 3
IdD == MakeId(3, 239, 34, 5)

FilterRows == {Row(10, Can0, id, 0, << >>) : id \in {IdA, IdB, IdC, IdD}}

FilterStores == SeqsUpTo(FilterRows, MaxFilterRecs)

MoiKeys == {"pgn", "sa", "da", "priority_min", "priority_max"}

MoiValues ==
    [pgn : {61184, 61444}, sa : {5, 0}, da : {33, 255},
     priority_min : {3, 6}, priority_max : {3, 6}]

\* every moi setting any subset of the five options
Mois == {[k \in K |-> v[k]] : K \in SUBSET MoiKeys, v \in MoiValues}

FilterRule(moi) ==
    [type |-> "rule", name |-> <<"S">>, label |-> "scan",
     metadata |-> [severity |-> "low"], moi |-> moi]

InitFilter ==
    \E store \in FilterStores, moi \in Mois : AtRules(store, <<FilterRule(moi)>>)

SpecFilter == InitFilter /\ [][StepScope]_vars

\* C14: _moi_filter returns, in store order, exactly the records satisfying
\* every option the moi sets; an empty moi returns all records; a broadcast
\* record never matches a moi that sets da; the store is left as it was (the
\* scope rule using the filter changes matching records only, and none of
\* their decoded fields).
C14_FilterExact ==
    AfterScope =>
        LET moi == rules[ri].moi
            out == MoiFilter(before, moi)
        IN  /\ out = SelectSeq([i \in 1..Len(before) |-> i],
                               LAMBDA i : Satisfies(before[i], moi))
            /\ (DOMAIN moi = {} => Len(out) = Len(before))
            /\ \A k \in 1..Len(out) :
                   "da" \in DOMAIN moi => before[out[k]].pdu_type = "PDU1"
            /\ \A i \in 1..Len(df) :
                   /\ Len(calls[i]) = 1 <=> \E k \in 1..Len(out) : out[k] = i
                   /\ Len(calls[i]) = 0 => df[i] = before[i]
                   /\ \A f \in DOMAIN records[i] \ {"label"} : df[i][f] = records[i][f]

\* a moi setting da and both priority bounds, met by one record with its
\* priority on the lower bound and missed by a broadcast record
C14_Witness ==
    /\ AfterScope
    /\ Len(df) = 2
    /\ {"da", "priority_min", "priority_max"} \subseteq DOMAIN rules[ri].moi
    /\ \E i, j \in 1..Len(df) :
           /\ Len(calls[i]) = 1
           /\ before[i].priority = rules[ri].moi.priority_min
           /\ Len(calls[j]) = 0
           /\ before[j].pdu_type = "PDU2"

(***************************************************************************)
(* SpecOnce: short rule lists on stores holding a burst of three records   *)
(***************************************************************************)
MaxOnceRecs == 3

MaxOnceRules == 2

OnceRows == RowCatalogue \cup {Row(30, Can0, IdA, 0, << >>)}

InitOnce ==
    \E store \in SeqsUpTo(OnceRows, MaxOnceRecs),
       rs \in SeqsUpTo(RuleCatalogue, MaxOnceRules) : AtRules(store, rs)

SpecOnce == InitOnce /\ [][Next]_vars

\* the records the burst rule `rule` marks on the frame d
Marked(d, rule) ==
    IndicesToLabel(d, MoiFilter(d, Get(rule, "moi", EmptyDict)),
                   Get(rule, "interval_ms", 1), Get(rule, "threshold", 5))

\* C15: one evaluation of one rule makes at most one _annotate_row call on a
\* record; an annotated record has the rule's name appended once to its
\* rule_name, any other record is left as it was; a burst rule annotates the
\* records its scan marks on the frame as it was before the first annotation.
C15_AtMostOnce ==
    [][\A i \in 1..Len(df) :
          LET old == df[i].rule_name
              n   == RuleName(CurrentRule)
          IN  /\ Len(calls'[i]) <= Len(calls[i]) + 1
              /\ Len(calls'[i]) = Len(calls[i]) + 1 =>
                     df'[i].rule_name = IF Len(old) = 0 THEN n ELSE old \o <<"|">> \o n
              /\ Len(calls'[i]) = Len(calls[i]) => df'[i] = df[i]
              /\ (RuleType(CurrentRule) = "irule" /\ Len(df) > 0) =>
                     (Len(calls'[i]) = Len(calls[i]) + 1 <=> i \in Marked(df, CurrentRule))
      ]_vars

\* three records of one identifier, each within the interval of the next, and
\* a burst rule of threshold 2 just evaluated: the window reached the
\* threshold at its second record and again at its third
C15_Witness ==
    /\ stage = "rules" /\ ri >= 1
    /\ RuleType(rules[ri]) = "irule" /\ rules[ri].threshold = 2
    /\ Len(df) = 3
    /\ \E i, j \in 1..3 : records[i].timestamp < records[j].timestamp
    /\ \A i \in 1..3 :
           /\ Len(calls[i]) >= 1
           /\ calls[i][Len(calls[i])].rule = rules[ri]
           /\ Len(before[i].rule_name) > 0
           /\ df[i].rule_name = before[i].rule_name \o <<"|">> \o RuleName(rules[ri])

(***************************************************************************)
(* Context cells, decoded fields and fire sets, under Spec                 *)
(***************************************************************************)
\* the calls context rules made on record i, in order
ContextCalls(i) == SelectSeq(calls[i], LAMBDA c : RuleType(c.rule) = "crule")

\* C16: context_value and context_pgn of a record are empty until a context
\* rule fires on it; from then on they hold the value observed by, and the
\* context pgn (as a string) of, the context rule that fired on it last,
\* whatever its rank and whatever rule holds the label.
C16_ContextFields ==
    \A i \in 1..Len(df) :
        LET cc == ContextCalls(i)
        IN  IF Len(cc) = 0
            THEN df[i].context_value = << >> /\ df[i].context_pgn = ""
            ELSE /\ df[i].context_value = cc[Len(cc)].context_value
                 /\ Len(df[i].context_value) = 1
                 /\ df[i].context_pgn = ToString(cc[Len(cc)].rule.context.pgn)
                 /\ df[i].context_pgn # ""

\* a context rule fired on a record below the rank already there, and a scope
\* rule took the label after it
C16_Witness ==
    \E i \in 1..Len(df) :
        /\ Len(calls[i]) = 3
        /\ RuleType(calls[i][2].rule) = "crule"
        /\ RankOf(calls[i][2].rule) < RankOf(calls[i][1].rule)
        /\ RuleType(calls[i][3].rule) = "rule"
        /\ df[i].rule_type = "rule"
        /\ df[i].context_value = calls[i][2].context_value
        /\ df[i].context_pgn = "61444"

DecodedFields ==
    {"timestamp", "iface", "can_id", "dlc", "data", "priority", "pdu_format",
     "pdu_specific", "pdu_type", "pgn", "pgn_label", "destination", "source"}

\* C17: evaluating rules never adds, deletes or reorders records and never
\* changes a decoded field; a row differs from its parsed record in label and
\* the eight provenance fields at most.
C17_DecodedFieldsKept ==
    /\ Len(df) = Len(records)
    /\ \A i \in 1..Len(df) :
           /\ DOMAIN df[i] = DecodedFields \cup {"label"} \cup DOMAIN Provenance
           /\ DOMAIN records[i] = DecodedFields \cup {"label"}
           /\ \A f \in DecodedFields : df[i][f] = records[i][f]

\* a store out of timestamp order on which a burst rule was evaluated and a
\* record was annotated by two rules
C17_Witness ==
    /\ stage = "rules" /\ ri >= 2
    /\ Len(records) = 2
    /\ records[1].timestamp > records[2].timestamp
    /\ \E k \in 1..ri : RuleType(rules[k]) = "irule"
    /\ \E i \in 1..2 : Len(calls[i]) >= 2 /\ df[i].label # "normal"

\* the _annotate_row calls one evaluation of `rule` makes on the frame d, per
\* record, with the context value passed
FireLog(d, rule) ==
    Evaluate([df |-> d, calls |-> [i \in 1..Len(d) |-> << >>]], rule).calls

\* the frame d with other label and provenance cells in every row
Relabelled(d) ==
    [i \in 1..Len(d) |->
        [d[i] EXCEPT !.label = "other", !.rule_name = <<"Z", "|", "Z">>,
                     !.rule_type = "irule", !.semantics = "state",
                     !.rule_severity = "high", !.rule_layer = "phy",
                     !.rule_description = "d9", !.context_pgn = "1",
                     !.context_value = <<99>>]]

\* C19: the records a rule fires on, and the context value a context rule
\* observes on each, are the same on the frame as it stands when the rule's
\* turn comes, on the frame as parsed, and on the frame with any other label
\* and provenance cells.
C19_FireSetIndependent ==
    InLoop =>
        /\ FireLog(df, CurrentRule) = FireLog(Frame(records), CurrentRule)
        /\ FireLog(df, CurrentRule) = FireLog(Relabelled(df), CurrentRule)

\* a context rule about to fire on a record an earlier rule has labelled
C19_Witness ==
    /\ InLoop /\ ri >= 1
    /\ RuleType(CurrentRule) = "crule"
    /\ \E i \in 1..Len(df) :
           /\ df[i].label # "normal"
           /\ Len(FireLog(df, CurrentRule)[i]) = 1
           /\ FireLog(df, CurrentRule)[i][1].context_value # << >>
    /\ \E j \in 1..Len(df) : Len(FireLog(df, CurrentRule)[j]) = 0

(***************************************************************************)
(* SpecPipeline: cli.main, parse_candump followed by apply_rules           *)
(***************************************************************************)
MaxPipeLines == 2

MaxPipeRules == 2

PipeLines == {LineOk, LineExtra, LineBadId, LineTruncated, LineBlank}

PipeRules == {RuleA, RuleB, RuleU, RuleC, RuleD, RuleX}

InitPipeline ==
    \E file \in SeqsUpTo(PipeLines, MaxPipeLines),
       rs \in SeqsUpTo(PipeRules, MaxPipeRules) : AtParse(file, rs)

NextPipeline == ParseLine \/ StartRules \/ StepScope \/ StepBurst \/ StepContext \/ StepUnknown

SpecPipeline == InitPipeline /\ [][NextPipeline]_vars

Recognized(rule) == RuleType(rule) \in {"rule", "irule", "crule"}

\* C20: when no line of the capture decodes, the record store is empty and a
\* list of recognized rules is evaluated on it to its end without an
\* exception, the annotated output being empty.
C20_Original ==
    (/\ stage # "parse"
     /\ DecodedOf(input) = << >>
     /\ \A k \in 1..Len(rules) : Recognized(rules[k]))
        => /\ Len(records) = 0
           /\ stage = "rules"
           /\ Len(df) = 0

====
